---- MODULE Spec2Model ----
(***************************************************************************)
(* Gold-graph extraction of BIRD/scripts/build_gold_graphs.py:             *)
(* build_schema_maps, parse_sql (over the syntax tree the external parser  *)
(* hands back) and build_gold_for_record.                                  *)
(*                                                                         *)
(* Strings that the code compares, sorts, lowercases or scans (table,      *)
(* column and alias names, the SQL text) are sequences of one-character    *)
(* strings; the empty string and None are both <<>> where the code only    *)
(* tests truthiness.  Descriptions are only tested for emptiness and       *)
(* copied, so they stay atomic strings.                                    *)
(*                                                                         *)
(* Schemas are those of real databases: every table owns at least one      *)
(* column, and every table index of column_names is a table or -1.         *)
(*                                                                         *)
(* Spec runs build_gold_for_record on one record, each invocation in a run *)
(* of its own; BatchSpec is one run of process_split over a split's        *)
(* question files.                                                         *)
(***************************************************************************)
EXTENDS Integers, Sequences, FiniteSets, TLC

\* The record and schema of the current call, its locals and its result.
VARIABLES schema, rec, runs, frame, out, prev

\* process_split: the db_id -> schema dictionary, the question files, the two
\* loop cursors, the results list, the file written at the end, and the
\* order in which this process's sets of strings iterate.
VARIABLES db_map, q_paths, q_idx, r_idx, results, saved, hash_order

record_vars == <<schema, rec, runs, frame, out, prev>>

batch_vars == <<db_map, q_paths, q_idx, r_idx, results, saved, hash_order>>

vars == <<schema, rec, runs, frame, out, prev,
          db_map, q_paths, q_idx, r_idx, results, saved, hash_order>>

\* ------------------------------------------------------------------ text

\* Code points of the characters the inputs are written in (Python compares
\* str by code point).
CharCode(c) ==
    CASE c = " " -> 32 [] c = "*" -> 42 [] c = "." -> 46 [] c = "A" -> 65 [] c = "B" -> 66
      [] c = "X" -> 88 [] c = "Z" -> 90 [] c = "_" -> 95 [] c = "a" -> 97
      [] c = "b" -> 98 [] c = "t" -> 116 [] c = "x" -> 120 [] c = "y" -> 121
      [] c = "z" -> 122

\* str.lower() on one character.
Lower(c) ==
    CASE c = "A" -> "a" [] c = "B" -> "b" [] c = "X" -> "x" [] c = "Z" -> "z"
      [] OTHER -> c

LowerStr(s) == [i \in 1..Len(s) |-> Lower(s[i])]

\* \w of Python's re: letters, digits and the underscore.
IsWordChar(c) == c = "_" \/ (CharCode(Lower(c)) >= 97 /\ CharCode(Lower(c)) <= 122)

\* [a-z0-9], the characters norm() keeps.
IsAlnumLower(c) == CharCode(c) >= 97 /\ CharCode(c) <= 122

RECURSIVE Strip(_)
Strip(s) ==
    IF s = <<>> THEN s
    ELSE IF Head(s) = " " THEN Strip(Tail(s))
    ELSE IF s[Len(s)] = " " THEN Strip(SubSeq(s, 1, Len(s) - 1))
    ELSE s

\* norm(): strip, lowercase, drop every character outside [a-z0-9].
norm(s) == SelectSeq(LowerStr(Strip(s)), IsAlnumLower)

\* Python's < on str: lexicographic by code point, a proper prefix first.
StrLess(s, t) ==
    \E k \in 0..Len(s) :
        /\ k <= Len(t)
        /\ \A i \in 1..k : s[i] = t[i]
        /\ \/ k = Len(s) /\ k < Len(t)
           \/ k < Len(s) /\ k < Len(t) /\ CharCode(s[k + 1]) < CharCode(t[k + 1])

\* re.search(r"\b" + re.escape(word) + r"\b", text): word occurs in text with a
\* word boundary on each side.  \b holds between two positions exactly when
\* one neighbour is a word character and the other is not (the ends of the
\* text count as non-word).
WordAt(text, p) == p >= 1 /\ p <= Len(text) /\ IsWordChar(text[p])

Boundary(text, p) == WordAt(text, p - 1) # WordAt(text, p)

\* Faulty variant of ReSearchWord: the pattern without its \b anchors.
ReSearchSubstring(word, text) ==
    \E p \in 1..(Len(text) + 1) :
        /\ p + Len(word) - 1 <= Len(text)
        /\ \A i \in 1..Len(word) : text[p + i - 1] = word[i]

ReSearchWord(word, text) ==
    \E p \in 1..(Len(text) + 1) :
        /\ p + Len(word) - 1 <= Len(text)
        /\ \A i \in 1..Len(word) : text[p + i - 1] = word[i]
        /\ Boundary(text, p)
        /\ Boundary(text, p + Len(word))

\* ------------------------------------------------------------ dictionaries

DictGet(d, k, default) == IF k \in DOMAIN d THEN d[k] ELSE default

DictSet(d, k, v) == [x \in (DOMAIN d) \cup {k} |-> IF x = k THEN v ELSE d[x]]

\* a or b on strings
PyOr(a, b) == IF a # "" THEN a ELSE b

\* ------------------------------------------------------------ Schema Index

Star == <<"*">>

\* Faulty variant of ColumnLoop: descriptions indexed by the column's place among the
\* non-wildcard columns, as if a wildcard took no description slot.
RECURSIVE ColumnLoopUnaligned(_, _, _)
ColumnLoopUnaligned(sch, i, maps) ==
    IF i > Len(sch.column_names) THEN maps
    ELSE LET t_idx == sch.column_names[i].t_idx
             c_name == sch.column_names[i].name
             place == Cardinality({j \in 1..i : sch.column_names[j].t_idx # -1})
         IN IF t_idx = -1
            THEN ColumnLoopUnaligned(sch, i + 1,
                     [maps EXCEPT !.idx_to_ref = Append(@, <<Star, Star>>)])
            ELSE LET tname == sch.table_names[t_idx + 1]
                     desc == IF place <= Len(sch.column_descriptions)
                             THEN sch.column_descriptions[place] ELSE ""
                 IN ColumnLoopUnaligned(sch, i + 1,
                        [idx_to_ref |-> Append(maps.idx_to_ref, <<tname, c_name>>),
                         table_to_cols |->
                             DictSet(maps.table_to_cols, tname,
                                 Append(DictGet(maps.table_to_cols, tname, <<>>),
                                        <<c_name, desc>>))])

\* Faulty variant of ColumnLoop: descriptions indexed by the column's place
\* within its own table.
RECURSIVE ColumnLoopPerTable(_, _, _)
ColumnLoopPerTable(sch, i, maps) ==
    IF i > Len(sch.column_names) THEN maps
    ELSE LET t_idx == sch.column_names[i].t_idx
             c_name == sch.column_names[i].name
         IN IF t_idx = -1
            THEN ColumnLoopPerTable(sch, i + 1,
                     [maps EXCEPT !.idx_to_ref = Append(@, <<Star, Star>>)])
            ELSE LET tname == sch.table_names[t_idx + 1]
                     place == Len(DictGet(maps.table_to_cols, tname, <<>>)) + 1
                     desc == IF place <= Len(sch.column_descriptions)
                             THEN sch.column_descriptions[place] ELSE ""
                 IN ColumnLoopPerTable(sch, i + 1,
                        [idx_to_ref |-> Append(maps.idx_to_ref, <<tname, c_name>>),
                         table_to_cols |->
                             DictSet(maps.table_to_cols, tname,
                                 Append(DictGet(maps.table_to_cols, tname, <<>>),
                                        <<c_name, desc>>))])

\* The loop over column_names: idx_to_ref and table_to_cols.
RECURSIVE ColumnLoop(_, _, _)
ColumnLoop(sch, i, maps) ==
    IF i > Len(sch.column_names) THEN maps
    ELSE LET t_idx == sch.column_names[i].t_idx
             c_name == sch.column_names[i].name
         IN IF t_idx = -1
            THEN ColumnLoop(sch, i + 1,
                     [maps EXCEPT !.idx_to_ref = Append(@, <<Star, Star>>)])
            ELSE LET tname == sch.table_names[t_idx + 1]
                     desc == IF i <= Len(sch.column_descriptions)
                             THEN sch.column_descriptions[i] ELSE ""
                 IN ColumnLoop(sch, i + 1,
                        [idx_to_ref |-> Append(maps.idx_to_ref, <<tname, c_name>>),
                         table_to_cols |->
                             DictSet(maps.table_to_cols, tname,
                                 Append(DictGet(maps.table_to_cols, tname, <<>>),
                                        <<c_name, desc>>))])

FkKey(d) == <<d.child_table, d.child_column, d.parent_table, d.parent_column>>

\* The loop over foreign_key_descriptions: a later entry replaces an earlier
\* one with the same key.
RECURSIVE FkLoop(_, _, _)
FkLoop(fk_descs, i, m) ==
    IF i > Len(fk_descs) THEN m
    ELSE FkLoop(fk_descs, i + 1,
             DictSet(m, FkKey(fk_descs[i]),
                     PyOr(fk_descs[i].summary, PyOr(fk_descs[i].usage, ""))))

SwapKey(k) == <<k[3], k[4], k[1], k[2]>>

\* The mirror index: (pt, pc, ct, cc) -> desc for every forward entry.
FkReverse(m) == [k \in {SwapKey(q) : q \in DOMAIN m} |-> m[SwapKey(k)]]

build_schema_maps(sch) ==
    LET cols == ColumnLoop(sch, 1, [idx_to_ref |-> <<>>, table_to_cols |-> <<>>])
        fk == FkLoop(sch.foreign_key_descriptions, 1, <<>>)
    IN [idx_to_ref |-> cols.idx_to_ref,
        table_to_cols |-> cols.table_to_cols,
        fk_desc_map |-> fk,
        fk_desc_map_rev |-> FkReverse(fk)]

\* ---------------------------------------------------------- Query Analyzer
(***************************************************************************)
(* The syntax tree is the external parser's; parse_sql reads it through    *)
(* find_all(Table), find_all(EQ), find(From), find_all(Join) and           *)
(* find_all(Column).  An ast is a record                                   *)
(*   from   : [isTable, name, alias]      (the FROM clause's expression)   *)
(*   joins  : Seq([this, using, natural, on])                              *)
(*   where  : Seq([left, right])  with operands [isColumn, table, name]    *)
(*   select : Seq([table, name])          (the projected columns)          *)
(* rec.parse_ok is FALSE when every dialect fails (parse_sql returns None).*)
(***************************************************************************)

\* _alias_name(t.alias) or t.name
AliasOrName(t) == IF t.alias # <<>> THEN t.alias ELSE t.name

\* ast.find_all(exp.Table): the FROM table, then each joined table.
FindAllTable(ast) ==
    (IF ast.from.isTable THEN <<ast.from>> ELSE <<>>)
    \o SelectSeq([i \in 1..Len(ast.joins) |-> ast.joins[i].this],
                 LAMBDA t : t.isTable)

RECURSIVE FlattenOn(_, _)
FlattenOn(joins, i) ==
    IF i > Len(joins) THEN <<>> ELSE joins[i].on \o FlattenOn(joins, i + 1)

\* ast.find_all(exp.EQ): the ON comparisons of the joins in order, then WHERE.
FindAllEQ(ast) == FlattenOn(ast.joins, 1) \o ast.where

RECURSIVE OperandColumns(_, _)
OperandColumns(eqs, i) ==
    IF i > Len(eqs) THEN <<>>
    ELSE (IF eqs[i].left.isColumn
          THEN <<[table |-> eqs[i].left.table, name |-> eqs[i].left.name]>>
          ELSE <<>>)
         \o (IF eqs[i].right.isColumn
             THEN <<[table |-> eqs[i].right.table, name |-> eqs[i].right.name]>>
             ELSE <<>>)
         \o OperandColumns(eqs, i + 1)

\* ast.find_all(exp.Column): projected columns, then the comparisons' operands.
FindAllColumn(ast) == ast.select \o OperandColumns(FindAllEQ(ast), 1)

\* The loop over the table nodes: tables_in_from and alias_to_table.
RECURSIVE TableLoop(_, _, _)
TableLoop(tables, i, acc) ==
    IF i > Len(tables) THEN acc
    ELSE LET name == tables[i].name
             alias == tables[i].alias
             a1 == IF name # <<>>
                   THEN [tables_in_from |-> Append(acc.tables_in_from, name),
                         alias_to_table |-> DictSet(acc.alias_to_table, name, name)]
                   ELSE acc
             a2 == IF alias # <<>>
                   THEN [a1 EXCEPT !.alias_to_table =
                            DictSet(@, alias, IF name # <<>> THEN name ELSE alias)]
                   ELSE a1
         IN TableLoop(tables, i + 1, a2)

\* The loop over the comparisons: both sides columns, both names non-empty.
RECURSIVE EqLoop(_, _)
EqLoop(eqs, i) ==
    IF i > Len(eqs) THEN <<>>
    ELSE LET l == eqs[i].left
             r == eqs[i].right
         IN (IF l.isColumn /\ r.isColumn /\ l.name # <<>> /\ r.name # <<>>
             THEN <<[ltab |-> l.table, lname |-> l.name,
                     rtab |-> r.table, rname |-> r.name]>>
             ELSE <<>>)
            \o EqLoop(eqs, i + 1)

\* The USING column list of one join: read only when the node carries an
\* `expressions` attribute; NATURAL and every other case give [].
UsingCols(j) ==
    IF j.using.present /\ j.using.hasExpressions
    THEN SelectSeq(j.using.names, LAMBDA c : c # <<>>)
    ELSE <<>>

\* Faulty variant of JoinLoop: the left cursor stays on the base table.
RECURSIVE JoinLoopBaseOnly(_, _, _, _)
JoinLoopBaseOnly(joins, i, last_left_alias, alias_to_table) ==
    IF i > Len(joins) THEN <<>>
    ELSE LET j == joins[i]
             right_alias == IF j.this.isTable THEN AliasOrName(j.this) ELSE <<>>
             here == IF /\ right_alias # <<>>
                        /\ (j.using.present \/ j.natural)
                        /\ last_left_alias # <<>>
                     THEN <<[left_table |->
                                 DictGet(alias_to_table, last_left_alias, last_left_alias),
                             right_table |->
                                 DictGet(alias_to_table, right_alias, right_alias),
                             right_alias |-> right_alias,
                             cols |-> UsingCols(j)]>>
                     ELSE <<>>
         IN here \o JoinLoopBaseOnly(joins, i + 1, last_left_alias, alias_to_table)

\* The loop over the join clauses, with the running left cursor.
RECURSIVE JoinLoop(_, _, _, _)
JoinLoop(joins, i, last_left_alias, alias_to_table) ==
    IF i > Len(joins) THEN <<>>
    ELSE LET j == joins[i]
             right_alias == IF j.this.isTable THEN AliasOrName(j.this) ELSE <<>>
             here == IF /\ right_alias # <<>>
                        /\ (j.using.present \/ j.natural)
                        /\ last_left_alias # <<>>
                     THEN <<[left_table |->
                                 DictGet(alias_to_table, last_left_alias, last_left_alias),
                             right_table |->
                                 DictGet(alias_to_table, right_alias, right_alias),
                             right_alias |-> right_alias,
                             cols |-> UsingCols(j)]>>
                     ELSE <<>>
             next == IF right_alias # <<>> THEN right_alias ELSE last_left_alias
         IN here \o JoinLoop(joins, i + 1, next, alias_to_table)

parse_sql(r) ==
    IF ~r.parse_ok
    THEN [ok |-> FALSE, alias_to_table |-> <<>>, join_pairs |-> <<>>,
          using_edges |-> <<>>, tables_in_from |-> <<>>, columns |-> <<>>]
    ELSE LET ast == r.ast
             tl == TableLoop(FindAllTable(ast), 1,
                       [tables_in_from |-> <<>>, alias_to_table |-> <<>>])
             base == IF ast.from.isTable THEN AliasOrName(ast.from) ELSE <<>>
         IN [ok |-> TRUE,
             alias_to_table |-> tl.alias_to_table,
             join_pairs |-> EqLoop(FindAllEQ(ast), 1),
             using_edges |-> JoinLoop(ast.joins, 1, base, tl.alias_to_table),
             tables_in_from |-> tl.tables_in_from,
             columns |-> FindAllColumn(ast)]

\* ------------------------------------------------------------ Graph Builder

\* Faulty variant of Describe: the forward index only.
DescribeForward(maps, key) == DictGet(maps.fk_desc_map, key, "")

\* fk_desc_map.get(key) or fk_desc_map_rev.get(key) or ""
Describe(maps, key) ==
    PyOr(DictGet(maps.fk_desc_map, key, ""),
         PyOr(DictGet(maps.fk_desc_map_rev, key, ""), ""))

Edge(ct, cc, pt, pc, desc) ==
    [child_table |-> ct, child_column |-> cc,
     parent_table |-> pt, parent_column |-> pc, description |-> desc]

EdgeKey(e) == <<e.child_table, e.child_column, e.parent_table, e.parent_column>>

\* Faulty variant of ExplicitTables: tables_needed is not emptied between
\* calls, so rule 1 starts from the tables of the call before.
ExplicitTablesKept(tables_in_from, table_to_cols) ==
    frame.tables_needed
    \cup {tables_in_from[i] : i \in {k \in 1..Len(tables_in_from) :
                                       tables_in_from[k] \in DOMAIN table_to_cols}}

\* Explicit FROM/JOIN tables that are keys of table_to_cols.
ExplicitTables(tables_in_from, table_to_cols) ==
    {tables_in_from[i] : i \in {k \in 1..Len(tables_in_from) :
                                    tables_in_from[k] \in DOMAIN table_to_cols}}

\* Faulty variant of EqJoinLoop: the qualifiers are used as written, without
\* alias_to_table.
RECURSIVE EqJoinLoopRaw(_, _, _, _, _)
EqJoinLoopRaw(join_pairs, i, alias_to_table, maps, acc) ==
    IF i > Len(join_pairs) THEN acc
    ELSE LET jp == join_pairs[i]
         IN IF jp.ltab = <<>> \/ jp.rtab = <<>>
            THEN EqJoinLoopRaw(join_pairs, i + 1, alias_to_table, maps, acc)
            ELSE EqJoinLoopRaw(join_pairs, i + 1, alias_to_table, maps,
                     [tables |-> acc.tables \cup {jp.ltab, jp.rtab},
                      edges |-> Append(acc.edges,
                          Edge(jp.ltab, jp.lname, jp.rtab, jp.rname,
                               Describe(maps, <<jp.ltab, jp.lname, jp.rtab, jp.rname>>)))])

\* Faulty variant of EqJoinLoop: a side is added to tables_needed only when it
\* is a key of table_to_cols, while the edge is appended all the same.
RECURSIVE EqJoinLoopSchemaOnly(_, _, _, _, _)
EqJoinLoopSchemaOnly(join_pairs, i, alias_to_table, maps, acc) ==
    IF i > Len(join_pairs) THEN acc
    ELSE LET jp == join_pairs[i]
             lt == DictGet(alias_to_table, jp.ltab, jp.ltab)
             rt == DictGet(alias_to_table, jp.rtab, jp.rtab)
         IN IF lt = <<>> \/ rt = <<>>
            THEN EqJoinLoopSchemaOnly(join_pairs, i + 1, alias_to_table, maps, acc)
            ELSE EqJoinLoopSchemaOnly(join_pairs, i + 1, alias_to_table, maps,
                     [tables |-> acc.tables
                                 \cup ({lt, rt} \cap DOMAIN maps.table_to_cols),
                      edges |-> Append(acc.edges,
                          Edge(lt, jp.lname, rt, jp.rname,
                               Describe(maps, <<lt, jp.lname, rt, jp.rname>>)))])

\* The loop over join_pairs: a pair with an empty resolved side is skipped;
\* every other pair adds both tables and appends one edge.
RECURSIVE EqJoinLoop(_, _, _, _, _)
EqJoinLoop(join_pairs, i, alias_to_table, maps, acc) ==
    IF i > Len(join_pairs) THEN acc
    ELSE LET jp == join_pairs[i]
             lt == DictGet(alias_to_table, jp.ltab, jp.ltab)
             rt == DictGet(alias_to_table, jp.rtab, jp.rtab)
         IN IF lt = <<>> \/ rt = <<>>
            THEN EqJoinLoop(join_pairs, i + 1, alias_to_table, maps, acc)
            ELSE EqJoinLoop(join_pairs, i + 1, alias_to_table, maps,
                     [tables |-> acc.tables \cup {lt, rt},
                      edges |-> Append(acc.edges,
                          Edge(lt, jp.lname, rt, jp.rname,
                               Describe(maps, <<lt, jp.lname, rt, jp.rname>>)))])

ColumnNames(table_to_cols, t) ==
    LET cols == DictGet(table_to_cols, t, <<>>) IN {cols[i][1] : i \in 1..Len(cols)}

\* Every order in which a set can be listed.
Listings(S) ==
    {f \in [1..Cardinality(S) -> S] : \A i, j \in 1..Cardinality(S) : f[i] = f[j] => i = j}

\* shared = cols or list(left_cols.intersection(right_cols)): the explicit list,
\* or the intersection in whatever order the set iterates (it depends on the
\* process's string hashing, so every order is possible).
SharedOrders(u, table_to_cols) ==
    IF u.cols # <<>> THEN {u.cols}
    ELSE Listings(ColumnNames(table_to_cols, u.left_table)
                  \cap ColumnNames(table_to_cols, u.right_table))

UsingEdgesOf(u, shared, maps) ==
    [k \in 1..Len(shared) |->
        Edge(u.left_table, shared[k], u.right_table, shared[k],
             Describe(maps, <<u.left_table, shared[k], u.right_table, shared[k]>>))]

\* The loop over using_edges: the set of its possible results, each the list
\* of edges appended for every spec in turn (a skipped spec appends none).
RECURSIVE UsingLoop(_, _, _)
UsingLoop(using_edges, i, maps) ==
    IF i > Len(using_edges) THEN {<<>>}
    ELSE LET u == using_edges[i]
             first == IF u.left_table = <<>> \/ u.right_table = <<>>
                      THEN {<<>>}
                      ELSE {UsingEdgesOf(u, sh, maps) :
                                sh \in SharedOrders(u, maps.table_to_cols)}
         IN {<<f>> \o rest : f \in first, rest \in UsingLoop(using_edges, i + 1, maps)}

UsingTables(using_edges) ==
    UNION {{using_edges[i].left_table, using_edges[i].right_table} :
              i \in {k \in 1..Len(using_edges) :
                        using_edges[k].left_table # <<>> /\ using_edges[k].right_table # <<>>}}

RECURSIVE Flatten(_)
Flatten(ss) == IF ss = <<>> THEN <<>> ELSE Head(ss) \o Flatten(Tail(ss))

\* owners = [t for t, cols in table_to_cols.items() if any(cn == col ...)]
Owners(table_to_cols, col) ==
    {t \in DOMAIN table_to_cols : col \in ColumnNames(table_to_cols, t)}

\* The loop over the column references: a qualified one adds its resolved table
\* when that is a key of table_to_cols, an unqualified one its only owner.
ColumnTables(columns, alias_to_table, table_to_cols) ==
    UNION {LET c == columns[i]
               real == DictGet(alias_to_table, c.table, c.table)
               owners == Owners(table_to_cols, c.name)
           IN IF c.table # <<>>
              THEN (IF real \in DOMAIN table_to_cols THEN {real} ELSE {})
              ELSE (IF Cardinality(owners) = 1 THEN owners ELSE {})
           : i \in 1..Len(columns)}

\* Faulty variant of FallbackTables: the scan without the two lower() calls.
FallbackTablesCaseSensitive(sql, table_to_cols) ==
    {t \in DOMAIN table_to_cols : ReSearchWord(t, sql)}

\* The fallback scan of the lowercased SQL text.
FallbackTables(sql, table_to_cols) ==
    {t \in DOMAIN table_to_cols : ReSearchWord(LowerStr(t), LowerStr(sql))}

\* Faulty variant of Sorted: descending order.
RECURSIVE SortedDescending(_)
SortedDescending(S) ==
    IF S = {} THEN <<>>
    ELSE LET m == CHOOSE x \in S : \A y \in S \ {x} : StrLess(y, x)
         IN <<m>> \o SortedDescending(S \ {m})

\* sorted(tables_needed)
RECURSIVE Sorted(_)
Sorted(S) ==
    IF S = {} THEN <<>>
    ELSE LET m == CHOOSE x \in S : \A y \in S \ {x} : StrLess(x, y)
         IN <<m>> \o Sorted(S \ {m})

Nodes(tables_needed, table_to_cols) ==
    LET order == Sorted(tables_needed)
    IN [k \in 1..Len(order) |->
           [table_name |-> order[k],
            columns |-> LET cols == DictGet(table_to_cols, order[k], <<>>)
                        IN [c \in 1..Len(cols) |->
                               [name |-> cols[c][1], description |-> cols[c][2]]]]]

\* Faulty variant of Dedup: every emitted edge is kept.
DedupKeepAll(edges, i, acc) == edges

\* The deduplication loop.
RECURSIVE Dedup(_, _, _)
Dedup(edges, i, acc) ==
    IF i > Len(edges) THEN acc.deduped
    ELSE IF EdgeKey(edges[i]) \in acc.seen
         THEN Dedup(edges, i + 1, acc)
         ELSE Dedup(edges, i + 1,
                  [seen |-> acc.seen \cup {EdgeKey(edges[i])},
                   deduped |-> Append(acc.deduped, edges[i])])

\* sep.join(parts) on lists of text pieces
RECURSIVE JoinWith(_, _)
JoinWith(sep, parts) ==
    IF parts = <<>> THEN <<>>
    ELSE IF Len(parts) = 1 THEN parts[1]
    ELSE parts[1] \o <<sep>> \o JoinWith(sep, Tail(parts))

ColumnText(c) ==
    IF c.description # "" THEN c.name \o <<": ", c.description>> ELSE c.name

NodeLine(n) ==
    <<"Table ">> \o n.table_name \o <<": ">>
    \o JoinWith(", ", [k \in 1..Len(n.columns) |-> ColumnText(n.columns[k])])

\* " -> " stands for the arrow the source writes between the two sides.
EdgeLine(e) ==
    e.child_table \o <<".">> \o e.child_column \o <<" -> ">>
    \o e.parent_table \o <<".">> \o e.parent_column
    \o (IF e.description # "" THEN <<" (", e.description, ")">> ELSE <<>>)

\* Faulty variant of ContextText: the header is written whether or not there
\* are edges.
ContextTextAlwaysHeader(nodes, deduped) ==
    JoinWith("\n",
        [k \in 1..Len(nodes) |-> NodeLine(nodes[k])]
        \o <<(<<"Relationships:">>)>>
        \o [k \in 1..Len(deduped) |-> EdgeLine(deduped[k])])

\* context_text: the node lines, then the header and the edge lines when there
\* are edges, joined by newlines.  A text is the list of its pieces.
ContextText(nodes, deduped) ==
    JoinWith("\n",
        [k \in 1..Len(nodes) |-> NodeLine(nodes[k])]
        \o (IF deduped # <<>>
            THEN <<(<<"Relationships:">>)>> \o [k \in 1..Len(deduped) |-> EdgeLine(deduped[k])]
            ELSE <<>>))

\* One call of build_gold_for_record: the set of results it can return (one,
\* unless a NATURAL join shares several columns), each with the locals it
\* ended with.
build_gold_for_record(r, sch) ==
    LET maps == build_schema_maps(sch)
        parsed == parse_sql(r)
        t2c == maps.table_to_cols
        explicit == ExplicitTables(parsed.tables_in_from, t2c)
        eq == EqJoinLoop(parsed.join_pairs, 1, parsed.alias_to_table, maps,
                         [tables |-> explicit, edges |-> <<>>])
        structural == eq.tables \cup UsingTables(parsed.using_edges)
                      \cup ColumnTables(parsed.columns, parsed.alias_to_table, t2c)
        tables_needed == IF structural = {} THEN FallbackTables(r.SQL, t2c)
                         ELSE structural
        nodes == Nodes(tables_needed, t2c)
    IN {LET edges == eq.edges \o Flatten(us)
            deduped == Dedup(edges, 1, [seen |-> {}, deduped |-> <<>>])
        IN [frame |-> [idx_to_ref |-> maps.idx_to_ref,
                       table_to_cols |-> t2c,
                       parsed |-> parsed,
                       eq_edges |-> eq.edges,
                       using_emitted |-> us,
                       edges |-> edges,
                       structural |-> structural,
                       tables_needed |-> tables_needed],
            out |-> [SQL |-> r.SQL,
                     nodes |-> nodes,
                     edges |-> deduped,
                     context_text |-> ContextText(nodes, deduped)]]
        : us \in UsingLoop(parsed.using_edges, 1, maps)}

\* ------------------------------------------------------------------ inputs

MaxEqs == 2
MaxJoins == 2
MaxSelect == 1
MaxRuns == 2

tA == <<"A">>
tB == <<"B">>
ta == <<"a">>
cx == <<"x">>
cy == <<"y">>
cX == <<"X">>
at == <<"t">>
az == <<"z">>

SeqsUpTo(S, n) == UNION {[1..k -> S] : k \in 0..n}

Col(t_idx, name) == [t_idx |-> t_idx, name |-> name]

Wild == Col(-1, Star)

\* Column layouts of a two-table schema: the tables share x and y; share y
\* only; share no name but x/X up to case; share nothing.
Layouts ==
    {<<Wild, Col(0, cx), Col(0, cy), Col(1, cx), Col(1, cy)>>,
     <<Col(0, cx), Col(1, cy), Col(0, cy)>>,
     <<Col(0, cx), Wild, Col(1, cX)>>,
     <<Wild, Col(0, cx), Col(1, cy)>>}

Fk(ct, cc, pt, pc, summary, usage) ==
    [child_table |-> ct, child_column |-> cc, parent_table |-> pt,
     parent_column |-> pc, summary |-> summary, usage |-> usage]

\* Foreign-key description lists: none; one; one per direction of the same
\* pair; one with a usage only and one with neither.
FkLists ==
    {<<>>,
     <<Fk(tA, cx, tB, cy, "s1", "u1")>>,
     <<Fk(tA, cx, tB, cy, "s1", ""), Fk(tB, cy, tA, cx, "s2", "")>>,
     <<Fk(tA, cx, tB, cx, "", "u3"), Fk(tA, cy, tB, cy, "", "")>>}

DescLists == {<<>>, <<"", "c2", "c3">>}

Schema(tn, cn, cd, fk) ==
    [table_names |-> tn, column_names |-> cn,
     column_descriptions |-> cd, foreign_key_descriptions |-> fk]

Tab(name, alias) == [isTable |-> TRUE, name |-> name, alias |-> alias]

\* A FROM or JOIN expression that is no table (a subquery), or no FROM at all.
NoTab == [isTable |-> FALSE, name |-> <<>>, alias |-> <<>>]

ColRef(t, n) == [table |-> t, name |-> n]

Operand(t, n) == [isColumn |-> TRUE, table |-> t, name |-> n]

\* A literal operand, written as the word it shows in the text.
Literal(w) == [isColumn |-> FALSE, table |-> <<>>, name |-> w]

Eq(l, r) == [left |-> l, right |-> r]

NoUsing == [present |-> FALSE, hasExpressions |-> FALSE, names |-> <<>>]

\* USING (names): the parser's node either carries `expressions` or is a bare
\* list of identifiers.
Using(names, hasExpressions) ==
    [present |-> TRUE, hasExpressions |-> hasExpressions, names |-> names]

Join(this, using, natural, on) ==
    [this |-> this, using |-> using, natural |-> natural, on |-> on]

Ast(from, joins, where, select, literals) ==
    [from |-> from, joins |-> joins, where |-> where, select |-> select,
     literals |-> literals]

EmptyAst == Ast(NoTab, <<>>, <<>>, <<>>, <<>>)

\* The words of a query's text, in clause order (keywords left out): the
\* text that parses to the ast names every table, alias and column of it.
Words(ss) == Flatten([k \in 1..Len(ss) |-> <<" ">> \o ss[k]])

ColWords(c) == IF c.table # <<>> THEN c.table \o <<".">> \o c.name ELSE c.name

TabWords(t) ==
    IF ~t.isTable THEN <<>>
    ELSE IF t.alias # <<>> THEN t.name \o <<" ">> \o t.alias ELSE t.name

EqWords(e) == ColWords(e.left) \o <<" ">> \o ColWords(e.right)

JoinWords(j) ==
    TabWords(j.this) \o Words(j.using.names)
    \o Words([k \in 1..Len(j.on) |-> EqWords(j.on[k])])

TextOf(ast) ==
    Words([k \in 1..Len(ast.select) |-> ColWords(ast.select[k])])
    \o <<" ">> \o TabWords(ast.from)
    \o Words([k \in 1..Len(ast.joins) |-> JoinWords(ast.joins[k])])
    \o Words([k \in 1..Len(ast.where) |-> EqWords(ast.where[k])])
    \o Words(ast.literals)

Parsed(ast) == [SQL |-> TextOf(ast), parse_ok |-> TRUE, ast |-> ast]

Unparsed(sql) == [SQL |-> sql, parse_ok |-> FALSE, ast |-> EmptyAst]

Input(sch, r) == [schema |-> sch, rec |-> r]

\* Equality joins against foreign-key descriptions.
EqPool ==
    {Eq(Operand(tA, cx), Operand(tB, cy)),
     Eq(Operand(tB, cy), Operand(tA, cx)),
     Eq(Operand(at, cx), Operand(tB, cy)),
     Eq(Operand(<<>>, cx), Operand(tB, cy)),
     Eq(Operand(tA, cx), Literal(az))}

EqInputs ==
    {Input(Schema(tn, <<Wild, Col(0, cx), Col(0, cy), Col(1, cx), Col(1, cy)>>,
                  <<"", "c2", "c3">>, fk),
           Parsed(Ast(from, joins, where, <<>>, <<>>))) :
        tn \in {<<tA, tB>>},
        fk \in FkLists,
        from \in {Tab(tA, <<>>), Tab(tA, at)},
        joins \in {<<>>, <<Join(Tab(tB, <<>>), NoUsing, FALSE,
                               <<Eq(Operand(tA, cx), Operand(tB, cy))>>)>>},
        where \in SeqsUpTo(EqPool, MaxEqs)}

\* USING and NATURAL joins: no table is joined twice.
JoinPool ==
    {Join(Tab(tB, <<>>), NoUsing, TRUE, <<>>),
     Join(Tab(tB, <<>>), Using(<<cy, cx>>, TRUE), FALSE, <<>>),
     Join(Tab(tB, <<>>), Using(<<cx>>, FALSE), FALSE, <<>>),
     Join(Tab(ta, az), NoUsing, TRUE, <<>>),
     Join(NoTab, Using(<<cx>>, TRUE), FALSE, <<>>)}

JoinLists ==
    {js \in SeqsUpTo(JoinPool, MaxJoins) :
        \A i, j \in 1..Len(js) : js[i].this = js[j].this => i = j}

JoinInputs ==
    {Input(Schema(<<tA, tB>>, cn, <<>>, fk),
           Parsed(Ast(from, joins, where, <<>>, <<>>))) :
        cn \in Layouts,
        fk \in {<<>>, <<Fk(tA, cx, tB, cx, "", "u3"), Fk(tA, cy, tB, cy, "", "")>>},
        from \in {Tab(tA, <<>>), Tab(tA, at), NoTab},
        joins \in JoinLists,
        where \in {<<>>, <<Eq(Operand(tA, cx), Operand(tB, cx))>>}}

\* Column references.
ColPool == {ColRef(<<>>, cx), ColRef(<<>>, cy), ColRef(<<>>, cX),
            ColRef(at, cx), ColRef(tB, cy)}

ColInputs ==
    {Input(Schema(tn, cn, <<>>, <<>>),
           Parsed(Ast(from, <<>>, <<>>, select, <<>>))) :
        tn \in {<<tA, tB>>, <<tB, ta>>},
        cn \in Layouts,
        from \in {Tab(tA, <<>>), Tab(tA, at), Tab(ta, <<>>), NoTab},
        select \in SeqsUpTo(ColPool, MaxSelect)}

\* Texts no dialect parses, and queries that name at most one table.
TextPool ==
    {<<>>,
     <<"A">>,
     <<"a", " ", "b">>,
     <<"a", "b">>,
     <<"A", "_", " ", "B">>,
     <<"x", ".", "B", "*", "a", "A">>}

TextInputs ==
    {Input(Schema(tn, cn, cd, <<>>), r) :
        tn \in {<<tA, tB>>, <<tB, ta>>},
        cn \in {<<Wild, Col(0, cx), Col(0, cy), Col(1, cx), Col(1, cy)>>,
                <<Col(0, cx), Col(1, cy), Col(0, cy)>>},
        cd \in DescLists,
        r \in {Unparsed(sql) : sql \in TextPool}
              \cup {Parsed(Ast(from, <<>>, <<>>, <<>>, lit)) :
                       from \in {NoTab, Tab(tA, <<>>), Tab(ta, <<>>), Tab(az, <<>>)},
                       lit \in {<<>>, <<tB>>, <<ta>>}}}

Inputs == EqInputs \cup JoinInputs \cup ColInputs \cup TextInputs

\* ------------------------------------------------------------ state machine

NoFrame ==
    [idx_to_ref |-> <<>>, table_to_cols |-> <<>>,
     parsed |-> parse_sql(Unparsed(<<>>)), eq_edges |-> <<>>, using_emitted |-> <<>>,
     edges |-> <<>>, structural |-> {}, tables_needed |-> {}]

NoOutput == [SQL |-> <<>>, nodes |-> <<>>, edges |-> <<>>, context_text |-> <<>>]

NotSaved == [written |-> FALSE, data |-> <<>>]

\* No batch is running.
NoBatch ==
    /\ db_map = <<>>
    /\ q_paths = <<>>
    /\ q_idx = 1
    /\ r_idx = 1
    /\ results = <<>>
    /\ saved = NotSaved
    /\ hash_order = <<>>

Init ==
    /\ \E in \in Inputs : schema = in.schema /\ rec = in.rec
    /\ runs = 0
    /\ frame = NoFrame
    /\ out = NoOutput
    /\ prev = NoOutput
    /\ NoBatch

\* One invocation of build_gold_for_record on the record and its schema, in a
\* run of its own; the previous invocation's result is kept for comparison.
Build ==
    /\ runs < MaxRuns
    /\ \E res \in build_gold_for_record(rec, schema) :
           /\ frame' = res.frame
           /\ out' = res.out
    /\ prev' = out
    /\ runs' = runs + 1
    /\ UNCHANGED <<schema, rec>>
    /\ UNCHANGED batch_vars

Next == Build

Spec == Init /\ [][Next]_vars

\* ------------------------------------------------------------ Batch Driver

MaxQuestions == 3

\* One entry of the tables file: a schema with its db_id.
DbEntry(db_id, sch) ==
    [db_id |-> db_id, table_names |-> sch.table_names,
     column_names |-> sch.column_names,
     column_descriptions |-> sch.column_descriptions,
     foreign_key_descriptions |-> sch.foreign_key_descriptions]

\* db_map = {d["db_id"]: d for d in schemas}: a later entry replaces an
\* earlier one with the same db_id.
RECURSIVE DbMap(_, _, _)
DbMap(schemas, i, m) ==
    IF i > Len(schemas) THEN m
    ELSE DbMap(schemas, i + 1, DictSet(m, schemas[i].db_id, schemas[i]))

\* One question record of a question file.
Question(db_id, question_en, r) ==
    [db_id |-> db_id, question_en |-> question_en,
     SQL |-> r.SQL, parse_ok |-> r.parse_ok, ast |-> r.ast]

\* A question file that exists, and a path where there is none.
QFile(questions) == [exists |-> TRUE, questions |-> questions]

MissingFile == [exists |-> FALSE, questions |-> <<>>]

\* The record build_gold_for_record returns: the identifying fields of the
\* question next to the graph and its text.
OutputRecord(q, o) ==
    [db_id |-> q.db_id, question_en |-> q.question_en, SQL |-> o.SQL,
     nodes |-> o.nodes, edges |-> o.edges, context_text |-> o.context_text]

\* The names of a table's columns, in table_to_cols order.
ColumnList(table_to_cols, t) ==
    LET cols == DictGet(table_to_cols, t, <<>>)
    IN [i \in 1..Len(cols) |-> cols[i][1]]

\* The set intersections one call listed: for every spec without a column
\* list, the two column lists the sets were made of and the order in which
\* the shared names came out.
SetListings(fr, table_to_cols) ==
    {[of |-> <<ColumnList(table_to_cols, fr.parsed.using_edges[k].left_table),
               ColumnList(table_to_cols, fr.parsed.using_edges[k].right_table)>>,
      order |-> [m \in 1..Len(fr.using_emitted[k]) |->
                    fr.using_emitted[k][m].child_column]] :
        k \in {k \in 1..Len(fr.parsed.using_edges) :
                  /\ fr.parsed.using_edges[k].cols = <<>>
                  /\ fr.parsed.using_edges[k].left_table # <<>>
                  /\ fr.parsed.using_edges[k].right_table # <<>>}}

\* Within one process a set of strings built the same way iterates the same
\* way (string hashing is seeded once, when the interpreter starts): a call's
\* listings agree with each other and with those of the earlier calls.
InThisProcess(listings, known) ==
    /\ \A a, b \in listings : a.of = b.of => a.order = b.order
    /\ \A a \in listings : a.of \in DOMAIN known => known[a.of] = a.order

Remember(listings, known) ==
    [k \in (DOMAIN known) \cup {a.of : a \in listings} |->
        IF k \in DOMAIN known THEN known[k]
        ELSE (CHOOSE a \in listings : a.of = k).order]

\* Lines 270-273: the tables file is loaded and indexed, results is empty and
\* the loop stands before the first question file.
BatchStart(schemas, paths) ==
    /\ db_map = DbMap(schemas, 1, <<>>)
    /\ q_paths = paths
    /\ q_idx = 1
    /\ r_idx = 1
    /\ results = <<>>
    /\ saved = NotSaved
    /\ hash_order = <<>>
    /\ schema = Schema(<<>>, <<>>, <<>>, <<>>)
    /\ rec = Unparsed(<<>>)
    /\ runs = 0
    /\ frame = NoFrame
    /\ out = NoOutput
    /\ prev = NoOutput

AtRecord ==
    /\ q_idx <= Len(q_paths)
    /\ q_paths[q_idx].exists
    /\ r_idx <= Len(q_paths[q_idx].questions)

\* if not q_path.exists(): continue
SkipMissingFile ==
    /\ q_idx <= Len(q_paths)
    /\ ~q_paths[q_idx].exists
    /\ q_idx' = q_idx + 1
    /\ r_idx' = 1
    /\ UNCHANGED <<db_map, q_paths, results, saved, hash_order>>
    /\ UNCHANGED record_vars

\* The inner loop has gone through the file's questions.
EndOfFile ==
    /\ q_idx <= Len(q_paths)
    /\ q_paths[q_idx].exists
    /\ r_idx > Len(q_paths[q_idx].questions)
    /\ q_idx' = q_idx + 1
    /\ r_idx' = 1
    /\ UNCHANGED <<db_map, q_paths, results, saved, hash_order>>
    /\ UNCHANGED record_vars

\* Faulty variant of SkipUnknown: a question of an unknown database leaves an
\* empty record in results.
SkipUnknownEmitsEmpty ==
    /\ AtRecord
    /\ q_paths[q_idx].questions[r_idx].db_id \notin DOMAIN db_map
    /\ results' = Append(results,
                      OutputRecord(q_paths[q_idx].questions[r_idx], NoOutput))
    /\ r_idx' = r_idx + 1
    /\ UNCHANGED <<db_map, q_paths, q_idx, saved, hash_order>>
    /\ UNCHANGED record_vars

\* schema = db_map.get(db_id); if not schema: continue
SkipUnknown ==
    /\ AtRecord
    /\ q_paths[q_idx].questions[r_idx].db_id \notin DOMAIN db_map
    /\ r_idx' = r_idx + 1
    /\ UNCHANGED <<db_map, q_paths, q_idx, results, saved, hash_order>>
    /\ UNCHANGED record_vars

\* results.append(build_gold_for_record(rec, schema))
AppendResult ==
    /\ AtRecord
    /\ q_paths[q_idx].questions[r_idx].db_id \in DOMAIN db_map
    /\ LET q == q_paths[q_idx].questions[r_idx]
           sch == db_map[q.db_id]
       IN /\ \E res \in build_gold_for_record(q, sch) :
                LET listings == SetListings(res.frame,
                                    build_schema_maps(sch).table_to_cols)
                IN /\ InThisProcess(listings, hash_order)
                   /\ hash_order' = Remember(listings, hash_order)
                   /\ frame' = res.frame
                   /\ out' = res.out
                   /\ results' = Append(results, OutputRecord(q, res.out))
          /\ rec' = q
          /\ schema' = sch
    /\ prev' = out
    /\ runs' = runs + 1
    /\ r_idx' = r_idx + 1
    /\ UNCHANGED <<db_map, q_paths, q_idx, saved>>

\* save_json(out_path, results), after the last file.
Save ==
    /\ q_idx > Len(q_paths)
    /\ ~saved.written
    /\ saved' = [written |-> TRUE, data |-> results]
    /\ UNCHANGED <<db_map, q_paths, q_idx, r_idx, results, hash_order>>
    /\ UNCHANGED record_vars

\* Two databases: A(x, y), B(x, y) with one described foreign key, and
\* B(x, y), a(y).
SchemaAB ==
    Schema(<<tA, tB>>, <<Wild, Col(0, cx), Col(0, cy), Col(1, cx), Col(1, cy)>>,
           <<"", "c2", "c3">>, <<Fk(tA, cx, tB, cy, "s1", "u1")>>)

SchemaBa == Schema(<<tB, ta>>, <<Col(0, cx), Col(1, cy), Col(0, cy)>>, <<>>, <<>>)

\* Tables files: two databases; one database listed twice.
TablesFiles ==
    {<<DbEntry("d1", SchemaAB), DbEntry("d2", SchemaBa)>>,
     <<DbEntry("d1", SchemaBa), DbEntry("d1", SchemaAB)>>}

\* Questions: a NATURAL join, unparsed text, and an aliased equality join asked
\* of a database of the tables file and of one that is in no tables file.
QuestionPool ==
    {Question("d1", "q1",
         Parsed(Ast(Tab(tA, <<>>), <<Join(Tab(tB, <<>>), NoUsing, TRUE, <<>>)>>,
                    <<>>, <<>>, <<>>))),
     Question("d2", "q2", Unparsed(<<"a", " ", "b">>)),
     Question("d1", "q3",
         Parsed(Ast(Tab(tA, at), <<Join(Tab(tB, <<>>), NoUsing, FALSE,
                                       <<Eq(Operand(at, cx), Operand(tB, cy))>>)>>,
                    <<>>, <<>>, <<>>))),
     Question("d9", "q4",
         Parsed(Ast(Tab(tA, at), <<Join(Tab(tB, <<>>), NoUsing, FALSE,
                                       <<Eq(Operand(at, cx), Operand(tB, cy))>>)>>,
                    <<>>, <<>>, <<>>)))}

\* The question files of a split: train has one path, dev two; a path may
\* lead to no file.
QuestionPaths ==
    UNION {{<<QFile(qs)>>, <<QFile(qs), MissingFile>>, <<MissingFile, QFile(qs)>>}
           \cup {<<QFile(SubSeq(qs, 1, k)), QFile(SubSeq(qs, k + 1, Len(qs)))>> :
                    k \in 0..Len(qs)} :
        qs \in SeqsUpTo(QuestionPool, MaxQuestions)}

BatchInit ==
    \E schemas \in TablesFiles, paths \in QuestionPaths : BatchStart(schemas, paths)

BatchNext ==
    \/ SkipMissingFile
    \/ EndOfFile
    \/ SkipUnknown
    \/ AppendResult
    \/ Save

BatchSpec == BatchInit /\ [][BatchNext]_vars

\* ------------------------------------------------------------------ claims

Built == runs >= 1

NodeNames == {out.nodes[k].table_name : k \in 1..Len(out.nodes)}

SchemaTables == {schema.table_names[k] : k \in 1..Len(schema.table_names)}

\* The indices of the emitted edges that are the first with their 4-tuple.
FirstSeen(edges) ==
    {i \in 1..Len(edges) : \A j \in 1..(i - 1) : EdgeKey(edges[j]) # EdgeKey(edges[i])}

\* C1: the returned edge list is the emitted edge list (equality edges, then
\* USING/NATURAL edges) without the later occurrences of a 4-tuple: no two
\* returned edges share a 4-tuple, and the k-th returned edge is the emitted
\* edge at the k-th index that is the first with its 4-tuple.
C1_EdgeDedup ==
    Built =>
        LET e == frame.edges
            d == out.edges
            first == FirstSeen(e)
        IN /\ e = frame.eq_edges \o Flatten(frame.using_emitted)
           /\ \A i, j \in 1..Len(d) : EdgeKey(d[i]) = EdgeKey(d[j]) => i = j
           /\ Len(d) = Cardinality(first)
           /\ \A i \in first : d[Cardinality({j \in first : j <= i})] = e[i]

\* A duplicate was emitted after a different edge and was dropped.
C1_Witness ==
    /\ Built
    /\ Len(out.edges) >= 2
    /\ \E i \in 1..Len(frame.edges) :
           /\ i \notin FirstSeen(frame.edges)
           /\ \E j \in 1..(i - 1) : EdgeKey(frame.edges[j]) # EdgeKey(frame.edges[i])

\* C2: two invocations on the same schema and SQL return the same nodes, the
\* same edges in the same order and the same context_text.
C2_Deterministic == runs >= 2 => out = prev

\* The schema's columns of table t, by global column index.
SchemaIndexOf(t) ==
    {i \in 1..Len(schema.column_names) :
        /\ schema.column_names[i].t_idx # -1
        /\ schema.table_names[schema.column_names[i].t_idx + 1] = t}

\* C3: every node lists exactly the schema's columns of the table it names, in
\* schema order, each with the description at its global column index (empty
\* past the end of column_descriptions); a node naming no schema table has no
\* schema columns to list.
C3_NodeCompleteness ==
    Built =>
        \A k \in 1..Len(out.nodes) :
            LET n == out.nodes[k]
                idx == SchemaIndexOf(n.table_name)
            IN /\ Len(n.columns) = Cardinality(idx)
               /\ \A i \in idx :
                      n.columns[Cardinality({j \in idx : j <= i})] =
                          [name |-> schema.column_names[i].name,
                           description |->
                               IF i <= Len(schema.column_descriptions)
                               THEN schema.column_descriptions[i] ELSE ""]

\* A node of a query that references none of its columns lists several, one
\* of them described, from a schema whose wildcard column comes first.
C3_Witness ==
    /\ Built
    /\ frame.parsed.columns = <<>>
    /\ schema.column_names[1].t_idx = -1
    /\ \E k \in 1..Len(out.nodes) :
           /\ Len(out.nodes[k].columns) >= 2
           /\ \E c \in 1..Len(out.nodes[k].columns) :
                  out.nodes[k].columns[c].description # ""

\* The words of a text: its maximal runs of word characters.
WordsOf(text) ==
    {SubSeq(text, q[1], q[2]) : q \in
        {q \in (1..Len(text)) \X (1..Len(text)) :
            /\ q[1] <= q[2]
            /\ \A m \in q[1]..q[2] : IsWordChar(text[m])
            /\ (q[1] = 1 \/ ~IsWordChar(text[q[1] - 1]))
            /\ (q[2] = Len(text) \/ ~IsWordChar(text[q[2] + 1]))}}

NamedInText(t, text) == \E w \in WordsOf(text) : LowerStr(w) = LowerStr(t)

Count(piece, text) == Cardinality({i \in 1..Len(text) : text[i] = piece})

\* C4: when no dialect parses the SQL, the call returns a graph without edges
\* whose nodes are exactly the schema tables named, as a whole word and
\* whatever the case, in the SQL text, and context_text has one `Table` line
\* per node and no relationship part (the empty text when there is no node).
C4_GracefulDegradation ==
    (Built /\ ~rec.parse_ok) =>
        /\ out.edges = <<>>
        /\ NodeNames = {t \in SchemaTables : NamedInText(t, rec.SQL)}
        /\ Len(out.nodes) = Cardinality(NodeNames)
        /\ Count("Table ", out.context_text) = Len(out.nodes)
        /\ Count("Relationships:", out.context_text) = 0
        /\ Count("\n", out.context_text) =
               (IF out.nodes = <<>> THEN 0 ELSE Len(out.nodes) - 1)
        /\ (out.nodes = <<>> => out.context_text = <<>>)

\* Unparsed text that names one schema table as a word and holds the other
\* table's name only inside a longer word.
C4_Witness ==
    /\ Built
    /\ ~rec.parse_ok
    /\ Len(out.nodes) = 1
    /\ \E t \in SchemaTables \ NodeNames :
           \E p \in 1..Len(rec.SQL) :
               SubSeq(LowerStr(rec.SQL), p, p + Len(t) - 1) = LowerStr(t)

\* The description of the last foreign_key_descriptions entry with key k
\* (its summary, else its usage), "" when there is none.
LastDescription(k) ==
    LET fk == schema.foreign_key_descriptions
        hits == {i \in 1..Len(fk) : FkKey(fk[i]) = k}
    IN IF hits = {} THEN ""
       ELSE LET i == CHOOSE m \in hits : \A h \in hits : h <= m
            IN IF fk[i].summary # "" THEN fk[i].summary ELSE fk[i].usage

\* C5 as claimed: whenever the schema holds an entry (child A.x, parent B.y)
\* with a non-empty description d, an edge written in either order, (A.x, B.y)
\* or (B.y, A.x), carries d.
C5_AnyEntryEitherOrder ==
    Built =>
        \A i \in 1..Len(schema.foreign_key_descriptions) :
            LET f == schema.foreign_key_descriptions[i]
                d == IF f.summary # "" THEN f.summary ELSE f.usage
            IN d # "" =>
                   \A k \in 1..Len(out.edges) :
                       EdgeKey(out.edges[k]) \in {FkKey(f), SwapKey(FkKey(f))}
                           => out.edges[k].description = d

\* C5, amended: when the foreign-key index holds the non-empty description d
\* for (A.x, B.y) (the last such entry's), an edge (A.x, B.y) carries d, and an
\* edge written in reverse, (B.y, A.x), carries d unless the index also
\* describes (B.y, A.x) itself, which then comes first.
C5_DirectionAgnostic ==
    Built =>
        \A k \in 1..Len(out.edges) :
            LET key == EdgeKey(out.edges[k])
                fwd == LastDescription(key)
                rev == LastDescription(SwapKey(key))
            IN /\ fwd # "" => out.edges[k].description = fwd
               /\ (fwd = "" /\ rev # "") => out.edges[k].description = rev

\* A predicate written against the direction of the only entry for its pair
\* got that entry's description.
C5_Witness ==
    /\ Built
    /\ \E k \in 1..Len(frame.eq_edges) :
           LET e == frame.eq_edges[k]
           IN /\ LastDescription(EdgeKey(e)) = ""
              /\ LastDescription(SwapKey(EdgeKey(e))) # ""
              /\ e.description = LastDescription(SwapKey(EdgeKey(e)))
              /\ e \in {out.edges[m] : m \in 1..Len(out.edges)}

\* C6: the nodes are strictly ascending by table_name (by code point), and
\* they are the tables the inclusion rules collected, each once.
C6_NodesSorted ==
    Built =>
        /\ \A i, j \in 1..Len(out.nodes) :
               i < j => StrLess(out.nodes[i].table_name, out.nodes[j].table_name)
        /\ NodeNames = frame.tables_needed

\* A table named in FROM that is also a side of a join predicate and the
\* owner of a referenced column is one node of several.
C6_Witness ==
    /\ Built
    /\ Len(out.nodes) >= 2
    /\ \E t \in NodeNames :
           /\ \E k \in 1..Len(frame.parsed.tables_in_from) :
                  frame.parsed.tables_in_from[k] = t
           /\ \E k \in 1..Len(frame.eq_edges) : frame.eq_edges[k].child_table = t
           /\ \E k \in 1..Len(frame.parsed.columns) :
                  frame.parsed.columns[k].table = t

\* C7: a FROM/JOIN token whose normalized form equals that of a schema table
\* makes that table a node, with the schema's columns.
C7_NormalizedTableMatch ==
    (Built /\ rec.parse_ok) =>
        \A k \in 1..Len(frame.parsed.tables_in_from) :
            \A t \in SchemaTables :
                norm(frame.parsed.tables_in_from[k]) = norm(t) =>
                    \E n \in 1..Len(out.nodes) :
                        /\ out.nodes[n].table_name = t
                        /\ Len(out.nodes[n].columns) = Cardinality(SchemaIndexOf(t))

\* The table a qualifier stands for: the name of the last table reference
\* whose alias it is, the qualifier itself otherwise.
Resolved(tok) ==
    LET refs == FindAllTable(rec.ast)
        hits == {i \in 1..Len(refs) : refs[i].alias = tok \/ refs[i].name = tok}
    IN IF hits = {} THEN tok
       ELSE LET i == CHOOSE m \in hits : \A h \in hits : h <= m
            IN IF refs[i].alias = tok THEN refs[i].name ELSE tok

\* The comparisons of the query whose two operands are column references.
ColumnComparisons ==
    SelectSeq(FindAllEQ(rec.ast), LAMBDA e : e.left.isColumn /\ e.right.isColumn)

OnePredicatePerComparison ==
    /\ Len(frame.parsed.join_pairs) = Len(ColumnComparisons)
    /\ \A k \in 1..Len(ColumnComparisons) :
           frame.parsed.join_pairs[k] =
               [ltab |-> ColumnComparisons[k].left.table,
                lname |-> ColumnComparisons[k].left.name,
                rtab |-> ColumnComparisons[k].right.table,
                rname |-> ColumnComparisons[k].right.name]

EdgeOfPredicate(e, jp) ==
    /\ e.child_table = Resolved(jp.ltab)
    /\ e.child_column = jp.lname
    /\ e.parent_table = Resolved(jp.rtab)
    /\ e.parent_column = jp.rname

\* C8 as claimed: one join predicate per comparison of two columns, and one
\* emitted edge per predicate, qualified or not, child = resolved left side and
\* parent = resolved right side.
C8_EdgePerPredicate ==
    (Built /\ rec.parse_ok) =>
        /\ OnePredicatePerComparison
        /\ Len(frame.eq_edges) = Len(frame.parsed.join_pairs)
        /\ \A k \in 1..Len(frame.parsed.join_pairs) :
               EdgeOfPredicate(frame.eq_edges[k], frame.parsed.join_pairs[k])

\* C8, amended: one join predicate per comparison of two columns; the edges
\* emitted for them are, in order, those of the predicates whose two operands
\* are both table-qualified, child = resolved left side and parent = resolved
\* right side; a predicate with an unqualified operand emits no edge.
C8_EdgePerQualifiedPredicate ==
    (Built /\ rec.parse_ok) =>
        LET qualified == SelectSeq(frame.parsed.join_pairs,
                                   LAMBDA jp : jp.ltab # <<>> /\ jp.rtab # <<>>)
        IN /\ OnePredicatePerComparison
           /\ Len(frame.eq_edges) = Len(qualified)
           /\ \A k \in 1..Len(qualified) :
                  EdgeOfPredicate(frame.eq_edges[k], qualified[k])

\* An unqualified predicate came before one written through an alias, and
\* only the second has its edge, on the aliased table.
C8_Witness ==
    /\ Built
    /\ Len(frame.parsed.join_pairs) = 2
    /\ frame.parsed.join_pairs[1].ltab = <<>>
    /\ frame.parsed.join_pairs[2].ltab = at
    /\ Len(frame.eq_edges) = 1
    /\ frame.eq_edges[1].child_table = tA

\* The schema tables owning a column with the normalized name of col.
NormOwners(col) ==
    {t \in SchemaTables :
        \E i \in SchemaIndexOf(t) : norm(schema.column_names[i].name) = norm(col)}

\* C9: an unqualified column reference adds its owner exactly when one schema
\* table owns a column of that normalized name, and adds nothing otherwise; no
\* edge has an unqualified side.
C9_SingleOwner ==
    (Built /\ rec.parse_ok) =>
        /\ \A k \in 1..Len(frame.parsed.columns) :
               LET c == frame.parsed.columns[k]
               IN c.table = <<>> =>
                      ColumnTables(<<c>>, frame.parsed.alias_to_table,
                                   build_schema_maps(schema).table_to_cols)
                          = (IF Cardinality(NormOwners(c.name)) = 1
                             THEN NormOwners(c.name) ELSE {})
        /\ \A k \in 1..Len(frame.edges) :
               frame.edges[k].child_table # <<>> /\ frame.edges[k].parent_table # <<>>

\* The column names two tables share, by normalized name.
NormShared(l, r) ==
    {norm(schema.column_names[i].name) : i \in SchemaIndexOf(l)}
    \cap {norm(schema.column_names[i].name) : i \in SchemaIndexOf(r)}

\* C10: a NATURAL join (empty column list) emits one edge per column name the
\* two tables share by normalized name, a USING join one edge per listed
\* column, each from the left table to the right table on that column; both
\* tables become nodes.
C10_UsingNatural ==
    Built =>
        /\ Len(frame.using_emitted) = Len(frame.parsed.using_edges)
        /\ \A k \in 1..Len(frame.parsed.using_edges) :
               LET u == frame.parsed.using_edges[k]
                   es == frame.using_emitted[k]
               IN /\ \A m \in 1..Len(es) :
                         /\ es[m].child_table = u.left_table
                         /\ es[m].parent_table = u.right_table
                         /\ es[m].child_column = es[m].parent_column
                  /\ IF u.cols # <<>>
                     THEN /\ Len(es) = Len(u.cols)
                          /\ \A m \in 1..Len(es) : es[m].child_column = u.cols[m]
                     ELSE /\ Len(es) = Cardinality(NormShared(u.left_table, u.right_table))
                          /\ {norm(es[m].child_column) : m \in 1..Len(es)}
                                 = NormShared(u.left_table, u.right_table)
                  /\ {u.left_table, u.right_table} \subseteq NodeNames

\* The questions of the files that exist, in listed order then file order.
RECURSIVE QuestionsOf(_, _)
QuestionsOf(paths, n) ==
    IF n = 0 THEN <<>>
    ELSE QuestionsOf(paths, n - 1)
         \o (IF paths[n].exists THEN paths[n].questions ELSE <<>>)

AllQuestions == QuestionsOf(q_paths, Len(q_paths))

\* The questions the two loops have gone past.
Passed ==
    IF q_idx > Len(q_paths) THEN AllQuestions
    ELSE QuestionsOf(q_paths, q_idx - 1)
         \o (IF q_paths[q_idx].exists
             THEN SubSeq(q_paths[q_idx].questions, 1, r_idx - 1) ELSE <<>>)

KnownDb(q) == q.db_id \in DOMAIN db_map

SameQuestion(o, q) ==
    /\ o.db_id = q.db_id
    /\ o.question_en = q.question_en
    /\ o.SQL = q.SQL

\* C11: results holds exactly one record per question gone past whose db_id
\* is a key of db_map, in the questions' order (files in listed order, records
\* in file order); a question of an unknown db_id leaves nothing; what is
\* written at the end is one record per known question of the whole input.
C11_OneRecordPerKnownQuestion ==
    LET known == SelectSeq(Passed, KnownDb)
    IN /\ Len(results) = Len(known)
       /\ \A k \in 1..Len(known) : SameQuestion(results[k], known[k])
       /\ saved.written =>
              /\ saved.data = results
              /\ Len(saved.data) = Len(SelectSeq(AllQuestions, KnownDb))

\* Written output of a split with two files, each with a known question, and
\* a question of an unknown database somewhere among them.
C11_Witness ==
    /\ saved.written
    /\ Len(q_paths) = 2
    /\ \A n \in 1..2 :
           /\ q_paths[n].exists
           /\ \E k \in 1..Len(q_paths[n].questions) : KnownDb(q_paths[n].questions[k])
    /\ \E k \in 1..Len(AllQuestions) : ~KnownDb(AllQuestions[k])
    /\ Len(saved.data) = 2

\* C12: when rules 1-4 collected a table, the nodes are the tables they
\* collected and a name that merely occurs in the SQL text adds none; when
\* they collected none, the nodes are exactly the schema tables whose
\* lowercased name is a whole word of the lowercased SQL text.
C12_FallbackOnlyWhenEmpty ==
    Built =>
        /\ frame.structural # {} => NodeNames = frame.structural
        /\ frame.structural = {} =>
               NodeNames = {t \in SchemaTables : NamedInText(t, rec.SQL)}

\* A parsed query whose rules collected a table, and whose text holds the
\* name of another schema table as a whole word: that table is no node.
C12_Witness ==
    /\ Built
    /\ rec.parse_ok
    /\ frame.structural # {}
    /\ \E t \in SchemaTables \ NodeNames : NamedInText(t, rec.SQL)

\* A parsed query whose rules collected nothing: the scan of its text found
\* a table, written in the other case.
C12_FallbackReached ==
    /\ Built
    /\ rec.parse_ok
    /\ frame.structural = {}
    /\ \E t \in NodeNames : \A w \in WordsOf(rec.SQL) : w # t

\* The FROM expression followed by the joined expressions, in clause order.
Relations == <<rec.ast.from>> \o [i \in 1..Len(rec.ast.joins) |-> rec.ast.joins[i].this]

\* The relation written immediately left of join clause i, by alias or name
\* (nothing when it is no table reference).
LeftNeighbour(i) == IF Relations[i].isTable THEN AliasOrName(Relations[i]) ELSE <<>>

\* The last table reference written left of join clause i, by alias or name
\* (nothing when there is none).
LastTableBefore(i) ==
    LET tabs == {n \in 1..i : Relations[n].isTable}
    IN IF tabs = {} THEN <<>>
       ELSE AliasOrName(Relations[CHOOSE n \in tabs : \A m \in tabs : m <= n])

\* The join clauses that are recorded: USING or NATURAL, joining a table
\* reference, with a table reference somewhere to their left.
RecordedClauses ==
    {i \in 1..Len(rec.ast.joins) :
        /\ rec.ast.joins[i].this.isTable
        /\ (rec.ast.joins[i].using.present \/ rec.ast.joins[i].natural)
        /\ LastTableBefore(i) # <<>>}

\* The k-th recorded clause.
ClauseOfSpec(k) ==
    CHOOSE i \in RecordedClauses : Cardinality({n \in RecordedClauses : n <= i}) = k

UnresolvedQualifiers ==
    ({frame.parsed.join_pairs[k].ltab : k \in 1..Len(frame.parsed.join_pairs)}
     \cup {frame.parsed.join_pairs[k].rtab : k \in 1..Len(frame.parsed.join_pairs)}
     \cup {frame.parsed.columns[k].table : k \in 1..Len(frame.parsed.columns)})
    \ ({<<>>} \cup DOMAIN frame.parsed.alias_to_table)

\* C14: a qualifier of a join predicate or column reference that is no key of
\* alias_to_table stands for itself, and when it names no schema table the
\* reference adds no node: no node is named by such a token.
C14_UnresolvedExcluded ==
    (Built /\ rec.parse_ok) =>
        \A tok \in UnresolvedQualifiers :
            tok \notin SchemaTables => tok \notin NodeNames

\* The same for column references alone, where the code does test the table:
\* an unresolved qualifier that only qualifies projected columns adds no node.
C14_ColumnReferencesExcluded ==
    (Built /\ rec.parse_ok /\ frame.parsed.join_pairs = <<>>) =>
        \A tok \in UnresolvedQualifiers :
            tok \notin SchemaTables => tok \notin NodeNames

\* The lines of a text: its pieces between the newlines.
RECURSIVE SplitLines(_)
SplitLines(text) ==
    LET breaks == {i \in 1..Len(text) : text[i] = "\n"}
    IN IF breaks = {} THEN <<text>>
       ELSE LET b == CHOOSE i \in breaks : \A j \in breaks : i <= j
            IN <<SubSeq(text, 1, b - 1)>> \o SplitLines(SubSeq(text, b + 1, Len(text)))

\* A column as it is rendered at place k of its node's line.
RenderedColumn(cols, k) ==
    (IF k > 1 THEN <<", ">> ELSE <<>>)
    \o cols[k].name
    \o (IF cols[k].description = "" THEN <<>> ELSE <<": ", cols[k].description>>)

RenderedNode(n) ==
    <<"Table ">> \o n.table_name \o <<": ">>
    \o Flatten([k \in 1..Len(n.columns) |-> RenderedColumn(n.columns, k)])

RenderedEdge(e) ==
    e.child_table \o <<".">> \o e.child_column \o <<" -> ">>
    \o e.parent_table \o <<".">> \o e.parent_column
    \o (IF e.description = "" THEN <<>> ELSE <<" (", e.description, ")">>)

\* C15: context_text is one `Table <name>: ...` line per node in node order,
\* then, exactly when there are edges, the line `Relationships:` and one line
\* per returned edge in edge order; a column without description is its bare
\* name, an edge without description has no parenthetical; without nodes and
\* edges the text is empty.
C15_Rendering ==
    Built =>
        LET lines == SplitLines(out.context_text)
            n == Len(out.nodes)
            m == Len(out.edges)
        IN IF n = 0 /\ m = 0 THEN out.context_text = <<>>
           ELSE /\ Len(lines) = n + (IF m > 0 THEN m + 1 ELSE 0)
                /\ \A k \in 1..n : lines[k] = RenderedNode(out.nodes[k])
                /\ m > 0 => lines[n + 1] = <<"Relationships:">>
                /\ \A k \in 1..m : lines[n + 1 + k] = RenderedEdge(out.edges[k])
                /\ Count("Relationships:", out.context_text) = (IF m > 0 THEN 1 ELSE 0)

\* A text of several node lines and several edge lines, with described and
\* undescribed columns and a described and an undescribed edge.
C15_Witness ==
    /\ Built
    /\ Len(out.nodes) >= 2
    /\ Len(out.edges) >= 2
    /\ \E k \in 1..Len(out.edges) : out.edges[k].description = ""
    /\ \E k \in 1..Len(out.edges) : out.edges[k].description # ""
    /\ \E k \in 1..Len(out.nodes) :
           \E c \in 1..Len(out.nodes[k].columns) :
               out.nodes[k].columns[c].description # ""
    /\ \E k \in 1..Len(out.nodes) :
           \E c \in 1..Len(out.nodes[k].columns) :
               out.nodes[k].columns[c].description = ""

\* The known questions gone past: results[k] is the record built for the k-th.
Answered == SelectSeq(Passed, KnownDb)

\* Every record of results is one the call returns for its question and
\* schema alone, and a question asked again after other records, of the same
\* or of another database, got the record it got before.
HistoryFree ==
    /\ \A k \in 1..Len(results) :
           k <= Len(Answered) =>
               results[k] \in {OutputRecord(Answered[k], res.out) :
                                  res \in build_gold_for_record(Answered[k],
                                              db_map[Answered[k].db_id])}
    /\ \A i, j \in 1..Len(results) :
           (i <= Len(Answered) /\ j <= Len(Answered) /\ Answered[i] = Answered[j])
               => results[i] = results[j]

C16_SameHashing ==
    /\ Len(results) >= 2
    /\ Answered[1] = Answered[2]
    /\ Len(results[1].edges) = 2

\* C17: for every schema table, table_to_cols lists the table's columns in
\* schema order, each with the description at its global column index, or ""
\* when the index is past the end of column_descriptions; a wildcard column
\* (table index -1) is in no table's list and keeps its index, where
\* idx_to_ref holds the sentinel.
C17_SchemaIndexAlignment ==
    Built =>
        /\ DOMAIN frame.table_to_cols \subseteq SchemaTables
        /\ \A t \in SchemaTables :
               LET idx == SchemaIndexOf(t)
                   cols == DictGet(frame.table_to_cols, t, <<>>)
               IN /\ Len(cols) = Cardinality(idx)
                  /\ \A i \in idx :
                         cols[Cardinality({j \in idx : j <= i})] =
                             <<schema.column_names[i].name,
                               IF i <= Len(schema.column_descriptions)
                               THEN schema.column_descriptions[i] ELSE "">>
        /\ Len(frame.idx_to_ref) = Len(schema.column_names)
        /\ \A i \in 1..Len(schema.column_names) :
               schema.column_names[i].t_idx = -1 =>
                   frame.idx_to_ref[i] = <<Star, Star>>

\* A schema that starts with the wildcard column and has fewer descriptions
\* than columns: a later column has its description, another has none.
C17_Witness ==
    /\ Built
    /\ schema.column_names[1].t_idx = -1
    /\ Len(schema.column_descriptions) > 0
    /\ Len(schema.column_descriptions) < Len(schema.column_names)
    /\ \E t \in DOMAIN frame.table_to_cols :
           \E k \in 1..Len(frame.table_to_cols[t]) : frame.table_to_cols[t][k][2] # ""
    /\ \E t \in DOMAIN frame.table_to_cols :
           \E k \in 1..Len(frame.table_to_cols[t]) : frame.table_to_cols[t][k][2] = ""

\* C18: in every returned graph the child_table and the parent_table of every
\* edge, from an equality predicate or from a USING/NATURAL join, are the
\* table_name of a node of the graph.
C18_EdgeClosure ==
    Built =>
        \A k \in 1..Len(out.edges) :
            /\ out.edges[k].child_table \in NodeNames
            /\ out.edges[k].parent_table \in NodeNames

\* A graph with an equality edge and a USING edge whose child tables are
\* nodes through their join alone: the one is in no FROM/JOIN clause, the
\* other is no table of the schema.
C18_Witness ==
    /\ Built
    /\ \E k \in 1..Len(frame.eq_edges) :
           /\ frame.eq_edges[k] \in {out.edges[m] : m \in 1..Len(out.edges)}
           /\ \A n \in 1..Len(frame.parsed.tables_in_from) :
                  frame.parsed.tables_in_from[n] # frame.eq_edges[k].child_table
    /\ \E k \in 1..Len(frame.using_emitted) :
           \E m \in 1..Len(frame.using_emitted[k]) :
               /\ frame.using_emitted[k][m] \in {out.edges[n] : n \in 1..Len(out.edges)}
               /\ frame.using_emitted[k][m].child_table \notin SchemaTables

====
